---- MODULE Spec2Model ----
(***************************************************************************)
(* Model of godevmath (src/src/main.rs): a Monte Carlo estimator of the    *)
(* yearly downtime of a three-node service A, B, C.                        *)
(*                                                                         *)
(*   Spec       one trial (experiment): the event loop over six cursors    *)
(*              and five timers, for schedules drawn from a bounded family *)
(*   SpecGen    the schedule generator (create_releases_times);            *)
(*              SpecGenFair adds that the generator keeps running          *)
(*   SpecAvail  the availability predicate is_now_available                *)
(*   SpecAgg    the aggregation of the trials' results in main             *)
(*                                                                         *)
(* Option<u32> is modelled as a sequence of length at most one:            *)
(* None is <<>> and Some(v) is <<v>>.                                      *)
(***************************************************************************)
EXTENDS Integers, Sequences, FiniteSets, TLC

\* ------------------------------------------------------------------------
\* Program constants (main.rs:10-16)
YEAR_TIME == 365 * 24 * 60

UNAVAILABLE_TIME_AFTER_BAD == 9

TIME_TO_B_CACHE == 30

TIME_TO_C_CACHE == 40

RELEASE_COUNT == 30

BAD_RELEASE_COUNT == 3

MIN_TIME_BETWEEN_RELEASES == 60

\* main.rs:197
EXPERIMENT_COUNT == 10000000

\* u32 arithmetic.  Every value of the program stays far below 2^31, the
\* largest integer TLC represents, so sums are plain; a subtraction below
\* zero (a panic in a debug build, a wrap in a release build) is kept apart
\* as the outcome "underflow".
AddU16(x, y) == (x + y) % 65536

AddU32(x, y) == x + y

\* ------------------------------------------------------------------------
\* Option<u32>
None == << >>

Some(v) == << v >>

is_none(o) == o = None

\* events.iter().filter_map(|x| *x): the values of the non-null options
filter_map(events) == { events[k][1] : k \in { j \in DOMAIN events : events[j] # None } }

\* ------------------------------------------------------------------------
\* Bounds of the model: how many entries of the shift tables are used.
NumShiftsA == 2

NumShifts == 8

\* the generator's first MaxJitterSteps accepted draws have two outcomes each
MaxJitterSteps == 3

\* the reservoir of choice_bad_times_to_releases is only overwritten by the
\* MaxReplace releases after the first three, or by the last release
MaxReplace == 3

\* the timer values is_now_available is applied to are None or Some(1..MaxTimer)
MaxTimer == 2

\* the aggregator is run on NumTrials trials in place of EXPERIMENT_COUNT
NumTrials == 4

\* ------------------------------------------------------------------------
\* State
VARIABLES
    a_rel, b_rel, c_rel,                \* sorted release schedules
    a_bad_rel, b_bad_rel, c_bad_rel,    \* sorted bad-release subsets
    a, b, c,                            \* plain-release cursors (next index)
    a_bad, b_bad, c_bad,                \* bad-release cursors (next index)
    time,                               \* time of the last processed iteration
    b_cache_full_in, c_cache_full_in,   \* cache-cold-until timers
    a_available_in, b_available_in, c_available_in,  \* outage-until timers
    downs, downs_count,                 \* recorded downtime intervals
    down_time,                          \* result of experiment()
    pc,                                 \* position of the trial
    ans, i, gen_time,                   \* choice_times_to_releases locals
    releases, bad_releases,             \* create_releases_times result
    gen_pc,                             \* position of the generator
    available,                          \* last result of is_now_available
    started,                            \* the loop has run once: time is set
    jobs,                               \* the parts the trials are split into
    results,                            \* result of each trial, 0 before it ran
    merges,                             \* number of partial sums combined
    unavailable_sum,                    \* main's unavailable_sum
    average_unavailable, percent,       \* main's exact rationals
    agg_pc                              \* position of main

schedVars == << a_rel, b_rel, c_rel, a_bad_rel, b_bad_rel, c_bad_rel >>

cursorVars == << a, b, c, a_bad, b_bad, c_bad >>

timerVars == << b_cache_full_in, c_cache_full_in,
                a_available_in, b_available_in, c_available_in >>

trialVars == << schedVars, cursorVars, timerVars, time, downs, downs_count,
                down_time, pc, started >>

genVars == << ans, i, gen_time, releases, bad_releases, gen_pc >>

aggVars == << jobs, results, merges, unavailable_sum, average_unavailable,
              percent, agg_pc >>

vars == << trialVars, genVars, available, aggVars >>

\* ------------------------------------------------------------------------
\* is_now_available (main.rs:185-195)
is_now_available_noA(a_in, b_in, c_in, b_cache, c_cache) ==
    /\ (is_none(b_in) \/ is_none(b_cache))
    /\ (is_none(c_in) \/ is_none(c_cache))

is_now_available_noCache(a_in, b_in, c_in, b_cache, c_cache) ==
    /\ is_none(a_in)
    /\ is_none(b_in)
    /\ is_none(c_in)

is_now_available_andCache(a_in, b_in, c_in, b_cache, c_cache) ==
    /\ is_none(a_in)
    /\ (is_none(b_in) /\ is_none(b_cache))
    /\ (is_none(c_in) \/ is_none(c_cache))

is_now_available(a_in, b_in, c_in, b_cache, c_cache) ==
    /\ is_none(a_in)
    /\ (is_none(b_in) \/ is_none(b_cache))
    /\ (is_none(c_in) \/ is_none(c_cache))

\* ------------------------------------------------------------------------
\* Pieces of experiment() (main.rs:58-183)

\* it.peek().copied() of a peekable iterator at index cur over arr
peek(arr, cur) == IF cur <= Len(arr) THEN Some(arr[cur]) ELSE None

\* main.rs:121-125 and the .next() of 143, 150, 155
advanceStuck(arr, cur, t) == cur

advance(arr, cur, t) == IF peek(arr, cur) = Some(t) THEN cur + 1 ELSE cur

\* main.rs:135-137
ClearTimerKeep(item, t) == item

ClearTimerAny(item, t) == None

ClearTimer(item, t) == IF item = Some(t) THEN None ELSE item

\* main.rs:144, 151, 156
ArmOutageShort(t) == Some(AddU32(t, UNAVAILABLE_TIME_AFTER_BAD - 1))

ArmOutageLong(t) == Some(AddU32(t, UNAVAILABLE_TIME_AFTER_BAD + 1))

ArmOutage(t) == Some(AddU32(t, UNAVAILABLE_TIME_AFTER_BAD))

\* main.rs:145
ArmBCacheAsC(t) == Some(AddU32(t, TIME_TO_C_CACHE))

ArmBCacheWarm(t) == None

ArmBCache(t) == Some(AddU32(t, TIME_TO_B_CACHE))

\* main.rs:146
ArmCCacheAsB(t) == Some(AddU32(t, TIME_TO_B_CACHE))

ArmCCache(t) == Some(AddU32(t, TIME_TO_C_CACHE))

\* main.rs:67-68
InitBCache == Some(TIME_TO_B_CACHE)

InitCCache == Some(TIME_TO_C_CACHE)

\* main.rs:69: downs = [(0, 0); 3 * BAD_RELEASE_COUNT]
DownsCapacitySmall == BAD_RELEASE_COUNT

DownsCapacity == 3 * BAD_RELEASE_COUNT

InitDowns == [k \in 1..DownsCapacity |-> << 0, 0 >>]

\* main.rs:179: downs.into_iter().map(|(start, end)| end - start).sum()
RECURSIVE SumDowns(_, _)
SumDowns(d, k) ==
    IF k = 0 THEN 0
    ELSE AddU32(SumDowns(d, k - 1), d[k][2] - d[k][1])

\* main.rs:179: some end - start is below zero
Underflows(d) == \E k \in DOMAIN d : d[k][2] < d[k][1]

\* main.rs:180-181
AssertUpper(dt) == dt <= 3 * BAD_RELEASE_COUNT * UNAVAILABLE_TIME_AFTER_BAD

AssertLower(dt) == dt >= BAD_RELEASE_COUNT * UNAVAILABLE_TIME_AFTER_BAD

\* main.rs:98-110
EventsCursorsOnly ==
    << peek(a_rel, a), peek(b_rel, b), peek(c_rel, c),
       peek(a_bad_rel, a_bad), peek(b_bad_rel, b_bad), peek(c_bad_rel, c_bad) >>

Events ==
    << peek(a_rel, a), peek(b_rel, b), peek(c_rel, c),
       peek(a_bad_rel, a_bad), peek(b_bad_rel, b_bad), peek(c_bad_rel, c_bad),
       b_cache_full_in, c_cache_full_in,
       a_available_in, b_available_in, c_available_in >>

\* main.rs:111: events.iter().filter_map(|x| *x).min(), as a set holding the
\* minimum, empty when every event is None
NextEventTimeMax ==
    LET S == filter_map(Events)
    IN  { m \in S : \A x \in S : m >= x }

NextEventTime ==
    LET S == filter_map(Events)
    IN  { m \in S : \A x \in S : m <= x }

\* ------------------------------------------------------------------------
\* The schedules a trial is run on.  create_releases_times can return any
\* ascending schedule with gaps above 60 and any 3 of its values; the model
\* draws from the family below: release k of a node is at (k-1)*Stride plus
\* the node's shift, the last one near the end of the year.
Stride == MIN_TIME_BETWEEN_RELEASES + TIME_TO_C_CACHE

ShiftTableA == << 0, 20, 10 >>

ShiftTable == << 0, 5, 9, 10, 18, 20, 30, 35, 40, 31 >>

ShiftsA == { ShiftTableA[k] : k \in 1..NumShiftsA }

Shifts == { ShiftTable[k] : k \in 1..NumShifts }

Schedule(shift) ==
    [k \in 1..RELEASE_COUNT |->
        IF k < RELEASE_COUNT THEN (k - 1) * Stride + shift
        ELSE YEAR_TIME - Stride + shift]

BadSlotsA == { << 1, 2, 3 >>, << 2, 3, 30 >> }

BadSlotsB == { << 1, 2, 3 >>, << 1, 2, 30 >>, << 1, 3, 30 >> }

BadSlotsC == { << 1, 2, 3 >>, << 1, 3, 30 >> }

BadOf(rel, slots) == [k \in 1..BAD_RELEASE_COUNT |-> rel[slots[k]]]

\* The plain releases of a trial are moved by a shift of their own, so that
\* one bad-release subset comes with more than one schedule.
PlainShifts == { 0, UNAVAILABLE_TIME_AFTER_BAD }

SchedulePlain(shift, slots, plain) ==
    [k \in 1..RELEASE_COUNT |->
        IF \E j \in DOMAIN slots : slots[j] = k
        THEN Schedule(shift)[k]
        ELSE Schedule(shift)[k] + plain]

\* ------------------------------------------------------------------------
\* Idle values of the parts a specification does not run
AggIdle ==
    /\ jobs = {}
    /\ results = << >>
    /\ merges = 0
    /\ unavailable_sum = 0
    /\ average_unavailable = << 0, 1 >>
    /\ percent = << 0, 1 >>
    /\ agg_pc = "idle"

GenIdle ==
    /\ ans = << >>
    /\ i = 0
    /\ gen_time = 0
    /\ releases = << >>
    /\ bad_releases = << >>
    /\ gen_pc = "idle"

\* experiment(), main.rs:59-86: the state when the loop is entered
Init ==
    /\ \E sa \in ShiftsA, sb \in Shifts, sc \in Shifts, plain \in PlainShifts :
       \E ba \in BadSlotsA, bb \in BadSlotsB, bc \in BadSlotsC :
          /\ a_rel = SchedulePlain(sa, ba, plain)
          /\ b_rel = SchedulePlain(sb, bb, plain)
          /\ c_rel = SchedulePlain(sc, bc, plain)
          /\ a_bad_rel = BadOf(Schedule(sa), ba)
          /\ b_bad_rel = BadOf(Schedule(sb), bb)
          /\ c_bad_rel = BadOf(Schedule(sc), bc)
    /\ a = 1 /\ b = 1 /\ c = 1
    /\ a_bad = 1 /\ b_bad = 1 /\ c_bad = 1
    /\ time = 0
    /\ b_cache_full_in = InitBCache
    /\ c_cache_full_in = InitCCache
    /\ a_available_in = None
    /\ b_available_in = None
    /\ c_available_in = None
    /\ downs = InitDowns
    /\ downs_count = 0
    /\ down_time = 0
    /\ pc = "loop"
    /\ available = TRUE
    /\ started = FALSE
    /\ GenIdle
    /\ AggIdle

\* One iteration of the loop, main.rs:89-176, when an event is pending
LoopIteration ==
    /\ pc = "loop"
    /\ \E t \in NextEventTime :
       LET available_before ==
               is_now_available(a_available_in, b_available_in, c_available_in,
                                b_cache_full_in, c_cache_full_in)
           \* timers after main.rs:128-138
           bc1 == ClearTimer(b_cache_full_in, t)
           cc1 == ClearTimer(c_cache_full_in, t)
           aa1 == ClearTimer(a_available_in, t)
           ba1 == ClearTimer(b_available_in, t)
           ca1 == ClearTimer(c_available_in, t)
           \* bad releases, main.rs:141-157
           a_hit == peek(a_bad_rel, a_bad) = Some(t)
           b_hit == peek(b_bad_rel, b_bad) = Some(t)
           c_hit == peek(c_bad_rel, c_bad) = Some(t)
           aa2 == IF a_hit THEN ArmOutage(t) ELSE aa1
           bc2 == IF a_hit THEN ArmBCache(t) ELSE bc1
           cc2 == IF a_hit THEN ArmCCache(t) ELSE cc1
           ba2 == IF b_hit THEN ArmOutage(t) ELSE ba1
           ca2 == IF c_hit THEN ArmOutage(t) ELSE ca1
           available_after == is_now_available(aa2, ba2, ca2, bc2, cc2)
           goes_down == available_before /\ ~available_after
           goes_up == ~available_before /\ available_after
       IN  /\ time' = t
           /\ started' = TRUE
           /\ a' = advance(a_rel, a, t)
           /\ b' = advance(b_rel, b, t)
           /\ c' = advance(c_rel, c, t)
           /\ a_bad' = advance(a_bad_rel, a_bad, t)
           /\ b_bad' = advance(b_bad_rel, b_bad, t)
           /\ c_bad' = advance(c_bad_rel, c_bad, t)
           /\ a_available_in' = aa2
           /\ b_available_in' = ba2
           /\ c_available_in' = ca2
           /\ b_cache_full_in' = bc2
           /\ c_cache_full_in' = cc2
           /\ available' = available_after
           \* main.rs:168-175; an index past the array panics
           /\ IF (goes_down \/ goes_up) /\ downs_count >= DownsCapacity
              THEN /\ pc' = "panic_index"
                   /\ UNCHANGED << downs, downs_count >>
              ELSE /\ pc' = "loop"
                   /\ downs' =
                        IF goes_down
                        THEN [downs EXCEPT ![downs_count + 1][1] = t]
                        ELSE IF goes_up
                        THEN [downs EXCEPT ![downs_count + 1][2] = t]
                        ELSE downs
                   /\ downs_count' = IF goes_up THEN downs_count + 1 ELSE downs_count
    /\ UNCHANGED << schedVars, down_time, genVars, aggVars >>

\* main.rs:111-118 with no candidate, then main.rs:178-182
EndOfSimulation ==
    /\ pc = "loop"
    /\ NextEventTime = {}
    /\ LET dt == SumDowns(downs, Len(downs))
       IN  IF Underflows(downs)
           THEN /\ pc' = "underflow"
                /\ UNCHANGED down_time
           ELSE /\ down_time' = dt
                /\ pc' = IF AssertUpper(dt) /\ AssertLower(dt)
                         THEN "done" ELSE "panic_assert"
    /\ UNCHANGED << schedVars, cursorVars, timerVars, time, downs, downs_count,
                    genVars, available, started, aggVars >>

Next == LoopIteration \/ EndOfSimulation

Spec == Init /\ [][Next]_vars

\* ------------------------------------------------------------------------
\* The schedule generator (main.rs:18-56)

\* main.rs:35-38, arr being the accepted prefix ans[0..i]
is_correct_time_to_append_ge(arr, t) ==
    \A k \in DOMAIN arr :
        (IF t >= arr[k] THEN t - arr[k] ELSE arr[k] - t) >= MIN_TIME_BETWEEN_RELEASES

is_correct_time_to_append(arr, t) ==
    \A k \in DOMAIN arr :
        (IF t >= arr[k] THEN t - arr[k] ELSE arr[k] - t) > MIN_TIME_BETWEEN_RELEASES

\* The values rng.gen_range(0..YEAR_TIME) returns while slot n (0-based) is
\* being filled are drawn from a bounded set: one free cell of a grid of
\* pitch 62 (the cells are visited out of order; the last cell is the end of
\* the year), its neighbour one minute later in the first MaxJitterSteps
\* slots, and, for every accepted time x, the values x-60, x and x+60.
GenPitch == MIN_TIME_BETWEEN_RELEASES + 2

GenCell(n) == (7 * n + 3) % RELEASE_COUNT

GenTarget(n) ==
    IF GenCell(n) = RELEASE_COUNT - 1 THEN YEAR_TIME - 1
    ELSE GenCell(n) * GenPitch

GenCandidates(arr, n) ==
    LET fresh == { GenTarget(n) } \cup
                 (IF n < MaxJitterSteps THEN { GenTarget(n) + 1 } ELSE {})
        near == UNION { { arr[k] - MIN_TIME_BETWEEN_RELEASES, arr[k],
                          arr[k] + MIN_TIME_BETWEEN_RELEASES } : k \in DOMAIN arr }
    IN  { x \in fresh \cup near : 0 <= x /\ x < YEAR_TIME }

\* releases.sort_unstable(): insertion of x into an ascending sequence
InsertSorted(s, x) ==
    LET pos == Cardinality({ j \in DOMAIN s : s[j] <= x })
    IN  SubSeq(s, 1, pos) \o << x >> \o SubSeq(s, pos + 1, Len(s))

RECURSIVE SortPrefix(_, _)
SortPrefix(s, n) ==
    IF n = 0 THEN << >> ELSE InsertSorted(SortPrefix(s, n - 1), s[n])

sort_unstable(s) == SortPrefix(s, Len(s))

\* iter().dedup().count(): the number of runs of equal consecutive values
dedup_count(s) ==
    IF Len(s) = 0 THEN 0
    ELSE 1 + Cardinality({ k \in 2..Len(s) : s[k] # s[k - 1] })

\* choose_multiple_fill (main.rs:42-45): the buffer starts as the first three
\* elements and element n > 3 overwrites a random slot or none, so a slot
\* holds its own element or a later one and no element is in two slots.
\* The result is the set of index buffers the call can end with.
ReplacePool ==
    (BAD_RELEASE_COUNT + 1 .. BAD_RELEASE_COUNT + MaxReplace) \cup { RELEASE_COUNT }

choose_multiple_fill_repeat ==
    { f \in [1..BAD_RELEASE_COUNT -> 1..RELEASE_COUNT] :
        \A k \in 1..BAD_RELEASE_COUNT : f[k] \in ReplacePool }

choose_multiple_fill ==
    { f \in [1..BAD_RELEASE_COUNT -> 1..RELEASE_COUNT] :
        /\ \A k \in 1..BAD_RELEASE_COUNT : f[k] = k \/ f[k] \in ReplacePool
        /\ \A k, m \in 1..BAD_RELEASE_COUNT : k # m => f[k] # f[m] }

\* the trial and the predicate call are not running
TrialIdle ==
    /\ a_rel = << >> /\ b_rel = << >> /\ c_rel = << >>
    /\ a_bad_rel = << >> /\ b_bad_rel = << >> /\ c_bad_rel = << >>
    /\ a = 1 /\ b = 1 /\ c = 1
    /\ a_bad = 1 /\ b_bad = 1 /\ c_bad = 1
    /\ time = 0
    /\ b_cache_full_in = None
    /\ c_cache_full_in = None
    /\ a_available_in = None
    /\ b_available_in = None
    /\ c_available_in = None
    /\ downs = InitDowns
    /\ downs_count = 0
    /\ down_time = 0
    /\ pc = "idle"
    /\ available = TRUE
    /\ started = FALSE

\* create_releases_times entered: main.rs:19-20
InitGen ==
    /\ ans = [k \in 1..RELEASE_COUNT |-> 0]
    /\ i = 0
    /\ gen_time = 0
    /\ releases = << >>
    /\ bad_releases = << >>
    /\ gen_pc = "choose"
    /\ TrialIdle
    /\ AggIdle

\* main.rs:23-29: a candidate is drawn, passes the check and is stored
DrawAccept ==
    /\ gen_pc = "choose"
    /\ i < RELEASE_COUNT
    /\ \E cand \in GenCandidates(SubSeq(ans, 1, i), i) :
          /\ is_correct_time_to_append(SubSeq(ans, 1, i), cand)
          /\ gen_time' = cand
          /\ ans' = [ans EXCEPT ![i + 1] = cand]
          /\ i' = i + 1
    /\ UNCHANGED << releases, bad_releases, gen_pc, trialVars, available, aggVars >>

\* main.rs:23-27: a candidate is drawn, fails the check and the loop repeats
DrawReject ==
    /\ gen_pc = "choose"
    /\ i < RELEASE_COUNT
    /\ \E cand \in GenCandidates(SubSeq(ans, 1, i), i) :
          /\ ~is_correct_time_to_append(SubSeq(ans, 1, i), cand)
          /\ gen_time' = cand
    /\ UNCHANGED << ans, i, releases, bad_releases, gen_pc, trialVars, available, aggVars >>

\* main.rs:32 and 51-55: the bad subset is chosen, both arrays are sorted and
\* the assertion on the deduplicated count is evaluated
CreateReleases ==
    /\ gen_pc = "choose"
    /\ i = RELEASE_COUNT
    /\ \E f \in choose_multiple_fill :
          LET bad == sort_unstable([k \in 1..BAD_RELEASE_COUNT |-> ans[f[k]]])
          IN  /\ bad_releases' = bad
              /\ gen_pc' = IF dedup_count(bad) = BAD_RELEASE_COUNT
                           THEN "done" ELSE "panic_assert"
    /\ releases' = sort_unstable(ans)
    /\ UNCHANGED << ans, i, gen_time, trialVars, available, aggVars >>

NextGen == DrawAccept \/ DrawReject \/ CreateReleases

SpecGen == InitGen /\ [][NextGen]_vars

\* the thread running the generator keeps running
SpecGenFair == SpecGen /\ WF_vars(NextGen)

\* ------------------------------------------------------------------------
\* is_now_available applied to arbitrary timers
TimerValues == { None } \cup { Some(v) : v \in 1..MaxTimer }

InitAvail ==
    /\ a_available_in \in TimerValues
    /\ b_available_in \in TimerValues
    /\ c_available_in \in TimerValues
    /\ b_cache_full_in \in TimerValues
    /\ c_cache_full_in \in TimerValues
    /\ a_rel = << >> /\ b_rel = << >> /\ c_rel = << >>
    /\ a_bad_rel = << >> /\ b_bad_rel = << >> /\ c_bad_rel = << >>
    /\ a = 1 /\ b = 1 /\ c = 1
    /\ a_bad = 1 /\ b_bad = 1 /\ c_bad = 1
    /\ time = 0
    /\ downs = InitDowns
    /\ downs_count = 0
    /\ down_time = 0
    /\ pc = "call"
    /\ available = FALSE
    /\ started = FALSE
    /\ GenIdle
    /\ AggIdle

Evaluate ==
    /\ pc = "call"
    /\ available' = is_now_available(a_available_in, b_available_in, c_available_in,
                                     b_cache_full_in, c_cache_full_in)
    /\ pc' = "return"
    /\ UNCHANGED << schedVars, cursorVars, timerVars, time, downs, downs_count,
                    down_time, started, genVars, aggVars >>

NextAvail == Evaluate

SpecAvail == InitAvail /\ [][NextAvail]_vars

\* ------------------------------------------------------------------------
\* main (main.rs:199-215)

\* Ratio<u64> of num_rational, as << numer, denom >>
RECURSIVE Gcd(_, _)
Gcd(x, y) == IF y = 0 THEN x ELSE Gcd(y, x % y)

Lcm(x, y) == (x \div Gcd(x, y)) * y

\* Ratio::new: the fraction in lowest terms
RatioNewFloor(n, d) == << n \div d, 1 >>

RatioNew(n, d) == << n \div Gcd(n, d), d \div Gcd(n, d) >>

RatioFromInteger(n) == << n, 1 >>

\* the operators /, - and * of Ratio; every result is reduced
RatioDiv(x, y) ==
    LET gcd_ac == Gcd(x[1], y[1])
        gcd_bd == Gcd(x[2], y[2])
    IN  RatioNew((x[1] \div gcd_ac) * (y[2] \div gcd_bd),
                 (x[2] \div gcd_bd) * (y[1] \div gcd_ac))

\* lhs_numer - rhs_numer is an unsigned subtraction
RatioSubUnderflows(x, y) ==
    x[1] * (Lcm(x[2], y[2]) \div x[2]) < y[1] * (Lcm(x[2], y[2]) \div y[2])

RatioSub(x, y) ==
    LET lcm == Lcm(x[2], y[2])
    IN  RatioNew(x[1] * (lcm \div x[2]) - y[1] * (lcm \div y[2]), lcm)

RatioMul(x, y) ==
    LET gcd_ad == Gcd(x[1], y[2])
        gcd_bc == Gcd(x[2], y[1])
    IN  RatioNew((x[1] \div gcd_ad) * (y[1] \div gcd_bc),
                 (x[2] \div gcd_bc) * (y[2] \div gcd_ad))

\* main.rs:205
AverageOf(total, count) == RatioNew(total, count)

\* main.rs:211-213
PercentOf(average) ==
    RatioMul(RatioFromInteger(100),
             RatioSub(RatioFromInteger(1),
                      RatioDiv(average, RatioFromInteger(YEAR_TIME))))

\* main.rs:202: the values experiment() returns, as the aggregator sees them
TrialResults == { 27, 54, 81 }

\* main.rs:203: .sum() adds the trials' results and the partial sums
CombineKeepLeft(x, y) == x

Combine(x, y) == x + y

Job(lo, hi, pos, acc) == [lo |-> lo, hi |-> hi, pos |-> pos, acc |-> acc]

\* main.rs:201: repeatn((), EXPERIMENT_COUNT), not yet split
InitAgg ==
    /\ jobs = { Job(0, NumTrials, 0, 0) }
    /\ results = [k \in 1..NumTrials |-> 0]
    /\ merges = 0
    /\ unavailable_sum = 0
    /\ average_unavailable = << 0, 1 >>
    /\ percent = << 0, 1 >>
    /\ agg_pc = "running"
    /\ TrialIdle
    /\ GenIdle

aggFrame == << trialVars, genVars, available >>

\* rayon splits a part that has not been started into two halves, which
\* worker threads take up independently
Split ==
    /\ agg_pc = "running"
    /\ \E j \in jobs :
          /\ j.pos = j.lo
          /\ j.hi - j.lo >= 2
          /\ LET mid == j.lo + (j.hi - j.lo) \div 2
             IN  jobs' = (jobs \ { j }) \cup
                         { Job(j.lo, mid, j.lo, 0), Job(mid, j.hi, mid, 0) }
    /\ UNCHANGED << results, merges, unavailable_sum, average_unavailable,
                    percent, agg_pc, aggFrame >>

\* main.rs:202: the worker of a part runs its next trial and adds the result
\* to the part's sum
RunTrial ==
    /\ agg_pc = "running"
    /\ \E j \in jobs :
          /\ j.pos < j.hi
          /\ \E r \in TrialResults :
                /\ jobs' = (jobs \ { j }) \cup
                           { Job(j.lo, j.hi, j.pos + 1, Combine(j.acc, r)) }
                /\ results' = [results EXCEPT ![j.pos + 1] = r]
    /\ UNCHANGED << merges, unavailable_sum, average_unavailable, percent,
                    agg_pc, aggFrame >>

\* main.rs:203: two finished neighbouring parts are reduced to one
Reduce ==
    /\ agg_pc = "running"
    /\ \E j1, j2 \in jobs :
          /\ j1.pos = j1.hi
          /\ j2.pos = j2.hi
          /\ j1.hi = j2.lo
          /\ jobs' = (jobs \ { j1, j2 }) \cup
                     { Job(j1.lo, j2.hi, j2.hi, Combine(j1.acc, j2.acc)) }
    /\ merges' = merges + 1
    /\ UNCHANGED << results, unavailable_sum, average_unavailable, percent,
                    agg_pc, aggFrame >>

\* main.rs:203-214: the sum is complete; the average and the percentage are
\* computed and printed
Report ==
    /\ agg_pc = "running"
    /\ \E j \in jobs :
          /\ jobs = { j }
          /\ j.pos = j.hi
          /\ unavailable_sum' = j.acc
          /\ LET average == AverageOf(j.acc, NumTrials)
                 part == RatioDiv(average, RatioFromInteger(YEAR_TIME))
             IN  /\ average_unavailable' = average
                 /\ IF RatioSubUnderflows(RatioFromInteger(1), part)
                    THEN /\ agg_pc' = "underflow"
                         /\ UNCHANGED percent
                    ELSE /\ agg_pc' = "printed"
                         /\ percent' = PercentOf(average)
    /\ UNCHANGED << jobs, results, merges, aggFrame >>

NextAgg == Split \/ RunTrial \/ Reduce \/ Report

SpecAgg == InitAgg /\ [][NextAgg]_vars

\* the trials whose first release of A is at minute 0
InitFair == Init /\ a_rel[1] = 0

\* the trial's thread keeps running
SpecFair == InitFair /\ [][Next]_vars /\ WF_vars(Next)

\* ========================================================================
\* Properties

\* A bad releases already processed by the loop
ProcessedABad == { a_bad_rel[k] : k \in 1..(a_bad - 1) }

\* every bad release of the trial, as << node, time >>
AllBad ==
    { << "A", a_bad_rel[k] >> : k \in DOMAIN a_bad_rel } \cup
    { << "B", b_bad_rel[k] >> : k \in DOMAIN b_bad_rel } \cup
    { << "C", c_bad_rel[k] >> : k \in DOMAIN c_bad_rel }

\* the intervals recorded so far
Recorded == { downs[k] : k \in 1..downs_count }

\* Availability at minute x read off the schedules alone: a node is in
\* outage for 9 minutes from each of its bad releases, B's cache is cold for
\* the first 30 minutes and for 30 minutes from each bad release of A, C's
\* for 40.
OutageAt(bad, x) ==
    \E k \in DOMAIN bad : bad[k] <= x /\ x < bad[k] + UNAVAILABLE_TIME_AFTER_BAD

ColdAt(warmup, x) ==
    \/ x < warmup
    \/ \E k \in DOMAIN a_bad_rel : a_bad_rel[k] <= x /\ x < a_bad_rel[k] + warmup

SystemDownAt(x) ==
    \/ OutageAt(a_bad_rel, x)
    \/ OutageAt(b_bad_rel, x) /\ ColdAt(TIME_TO_B_CACHE, x)
    \/ OutageAt(c_bad_rel, x) /\ ColdAt(TIME_TO_C_CACHE, x)

\* the minutes at which some node is in outage, with one minute either side
OutageMinutes ==
    UNION { (bt[2] - 1) .. (bt[2] + UNAVAILABLE_TIME_AFTER_BAD) : bt \in AllBad }

InRecorded(x) == \E iv \in Recorded : iv[1] <= x /\ x < iv[2]

\* ------------------------------------------------------------------------
\* C1: a finished trial's total downtime is between 27 and 81 minutes: the
\* sum never underflows and neither assertion at the end of experiment()
\* fails.
C1_DowntimeInRange ==
    /\ pc \notin { "panic_assert", "underflow" }
    /\ pc = "done" => (27 <= down_time /\ down_time <= 81)

C1_Witness == pc = "done" /\ down_time = 81

\* ------------------------------------------------------------------------
\* C2: is_now_available is false exactly when A is in outage, or B is in
\* outage with a cold cache, or C is in outage with a cold cache; so it is
\* false whenever A is in outage, and true when A is available and both
\* caches are warm, whatever B's and C's outage timers are.
C2_AvailabilityTable ==
    pc = "return" =>
        /\ available = ~( \/ a_available_in # None
                          \/ (b_available_in # None /\ b_cache_full_in # None)
                          \/ (c_available_in # None /\ c_cache_full_in # None) )
        /\ a_available_in # None => ~available
        /\ (a_available_in = None /\ b_cache_full_in = None /\ c_cache_full_in = None)
              => available

C2_Witness ==
    /\ pc = "return"
    /\ available
    /\ a_available_in = None
    /\ b_available_in # None /\ c_available_in # None
    /\ b_cache_full_in = None /\ c_cache_full_in = None

\* ------------------------------------------------------------------------
\* C3: when a trial ends, the recorded intervals are the maximal periods of
\* unavailability: each has start < end, they ascend with a gap between
\* consecutive ones, a minute is inside one of them exactly when the system
\* is down at that minute, and the returned downtime is their total length.
C3_IntervalsAreDownPeriods ==
    pc = "done" =>
        /\ \A k \in 1..downs_count : downs[k][1] < downs[k][2]
        /\ \A k \in 1..(downs_count - 1) : downs[k][2] < downs[k + 1][1]
        /\ \A x \in OutageMinutes : InRecorded(x) <=> SystemDownAt(x)
        /\ \A iv \in Recorded : (iv[1] .. (iv[2] - 1)) \subseteq OutageMinutes
        /\ down_time = SumDowns(downs, downs_count)
        /\ down_time = Cardinality({ x \in OutageMinutes : SystemDownAt(x) })

\* a trial in which an outage of B or C continues a down period exactly when
\* A's outage ends, and one that records a partial (cache-limited) interval
C3_Witness ==
    /\ pc = "done"
    /\ \E iv \in Recorded : iv[2] - iv[1] = 3 * UNAVAILABLE_TIME_AFTER_BAD

\* ------------------------------------------------------------------------
\* C4 (as claimed): with A's bad release at 100, B's at 105 and no other bad
\* release nearby, B's outage is shielded and only (100, 109) is recorded
\* around them: 9 minutes.
C4_Scenario ==
    /\ << "A", 100 >> \in AllBad
    /\ << "B", 105 >> \in AllBad
    /\ \A bt \in AllBad \ { << "A", 100 >>, << "B", 105 >> } :
          \/ bt[2] < 100 - MIN_TIME_BETWEEN_RELEASES
          \/ bt[2] > 105 + MIN_TIME_BETWEEN_RELEASES

C4_Around ==
    { iv \in Recorded : /\ iv[2] > 100 - MIN_TIME_BETWEEN_RELEASES
                        /\ iv[1] < 105 + MIN_TIME_BETWEEN_RELEASES }

C4_ShieldedAsClaimed ==
    (pc = "done" /\ C4_Scenario) => C4_Around = { << 100, 109 >> }

\* C4 (amended): A's bad release at 100 makes B's cache cold until 130, so
\* B's outage 105-114 is not shielded: the one interval recorded around the
\* two bad releases is (100, 114), 14 minutes.
C4_UnshieldedByColdCache ==
    (pc = "done" /\ C4_Scenario) => C4_Around = { << 100, 114 >> }

C4_Witness == pc = "done" /\ C4_Scenario

\* ------------------------------------------------------------------------
\* C5 (as claimed): B's cache timer is null or t+30, and C's null or t+40,
\* for a processed bad release t of A.
C5_OnlyABadArmsCaches ==
    /\ \/ b_cache_full_in = None
       \/ \E t \in ProcessedABad : b_cache_full_in = Some(t + 30)
    /\ \/ c_cache_full_in = None
       \/ \E t \in ProcessedABad : c_cache_full_in = Some(t + 40)

\* C5 (amended): during a trial B's cache timer is null, or the 30 it is
\* armed with at the start of the trial (until minute 30 is processed or A
\* has a bad release), or t+30 for a processed bad release t of A; C's
\* likewise with 40.  The caches are cold at t=0 and are warm from minute 30
\* (B) and 40 (C) until A's first bad release.
C5_CachesArmedAtStartOrByA ==
    pc = "loop" =>
        /\ \/ b_cache_full_in = None
           \/ b_cache_full_in = Some(30) /\ ProcessedABad = {} /\ time < 30
           \/ \E t \in ProcessedABad : b_cache_full_in = Some(t + 30)
        /\ \/ c_cache_full_in = None
           \/ c_cache_full_in = Some(40) /\ ProcessedABad = {} /\ time < 40
           \/ \E t \in ProcessedABad : c_cache_full_in = Some(t + 40)
        /\ (ProcessedABad = {} /\ time >= 30) => b_cache_full_in = None
        /\ (ProcessedABad = {} /\ time >= 40) => c_cache_full_in = None

C5_Witness ==
    /\ pc = "loop"
    /\ \E t \in ProcessedABad :
          /\ t > 40
          /\ b_cache_full_in = Some(t + 30)
          /\ c_cache_full_in = Some(t + 40)

\* ------------------------------------------------------------------------
\* C6: for 9 minutes from each bad release of A its outage timer is armed
\* and the system is down, and a finished trial has recorded an interval
\* covering [t, t+9) for each bad release t of A.  When A's bad release at
\* 100 has no other bad release within 60 minutes, the interval recorded
\* for it is exactly (100, 109); were it the only bad release of the trial,
\* that would be the only interval and the downtime 9.
C6_NoOtherBadNear ==
    /\ << "A", 100 >> \in AllBad
    /\ \A bt \in AllBad \ { << "A", 100 >> } :
          \/ bt[2] < 100 - MIN_TIME_BETWEEN_RELEASES
          \/ bt[2] > 100 + MIN_TIME_BETWEEN_RELEASES

C7_AtMostNineIntervals ==
    /\ pc # "panic_index"
    /\ downs_count <= 9
    /\ (pc = "loop" /\ ~available) => downs_count <= 8

C7_Witness == pc = "done" /\ downs_count = 9

\* ------------------------------------------------------------------------
\* C8: a returned schedule has exactly 30 release times, each in
\* [0, YEAR_TIME), ascending, consecutive ones more than 60 minutes apart;
\* while the schedule is being drawn, the accepted times are in
\* [0, YEAR_TIME) and pairwise more than 60 minutes apart.
C8_ScheduleSpaced ==
    /\ gen_pc = "choose" =>
          \A k \in 1..i :
             /\ 0 <= ans[k] /\ ans[k] < YEAR_TIME
             /\ \A m \in 1..(k - 1) : ans[k] - ans[m] > 60 \/ ans[m] - ans[k] > 60
    /\ gen_pc \in { "done", "panic_assert" } =>
          /\ Len(releases) = 30
          /\ \A k \in 1..30 : 0 <= releases[k] /\ releases[k] < YEAR_TIME
          /\ \A k \in 1..29 : releases[k + 1] - releases[k] > 60

\* a schedule that was drawn out of order, with two releases 61 apart
C8_Witness ==
    /\ gen_pc = "done"
    /\ releases # ans
    /\ \E k \in 1..29 : releases[k + 1] - releases[k] = 61

\* ------------------------------------------------------------------------
\* C9: a returned bad-release subset has exactly 3 values, pairwise
\* distinct, ascending, each a member of the schedule returned with it, and
\* the assertion on the deduplicated count never fails.
C9_BadSubset ==
    /\ gen_pc # "panic_assert"
    /\ gen_pc = "done" =>
          /\ Len(bad_releases) = 3
          /\ \A k \in 1..2 : bad_releases[k] < bad_releases[k + 1]
          /\ \A k \in 1..3 : \E m \in 1..Len(releases) : releases[m] = bad_releases[k]

\* a subset in which the first release drawn was overwritten in the
\* reservoir and the last release drawn was chosen
C9_Witness ==
    /\ gen_pc = "done"
    /\ \A k \in 1..3 : bad_releases[k] # ans[1]
    /\ \E k \in 1..3 : bad_releases[k] = ans[RELEASE_COUNT]

\* ------------------------------------------------------------------------
\* C10: the rejection-sampling loop ends in every execution: after a
\* bounded number of attempts the generator has returned or has failed.
C10_LoopEnds == <>(gen_pc # "choose")

\* ------------------------------------------------------------------------
\* C11: the printed sum is the sum of the trials' results however the trials
\* are split into parts, interleaved and reduced: at every moment the
\* partial sums add up to the results produced so far, and a trial's result,
\* once produced, is not touched by any other trial.
RECURSIVE SumSeq(_, _)
SumSeq(q, n) == IF n = 0 THEN 0 ELSE SumSeq(q, n - 1) + q[n]

RECURSIVE SumAccs(_)
SumAccs(J) ==
    IF J = {} THEN 0
    ELSE LET j == CHOOSE x \in J : TRUE IN j.acc + SumAccs(J \ { j })

C12_ExactPercent ==
    /\ agg_pc # "underflow"
    /\ agg_pc = "printed" =>
          LET D == NumTrials * YEAR_TIME
              N == 100 * (D - unavailable_sum)
              g == D \div percent[2]
              h == NumTrials \div average_unavailable[2]
          IN  /\ percent[2] * g = D
              /\ percent[1] * g = N
              /\ Gcd(percent[1], percent[2]) = 1
              /\ average_unavailable[2] * h = NumTrials
              /\ average_unavailable[1] * h = unavailable_sum
              /\ Gcd(average_unavailable[1], average_unavailable[2]) = 1

\* an average that is not a whole number of minutes
C12_Witness == agg_pc = "printed" /\ average_unavailable[2] # 1

\* ------------------------------------------------------------------------
\* C13: after an iteration no pending cursor head and no armed timer equals
\* the iteration's time, and no two recorded transitions have the same time.
TransitionTimes ==
    { downs[k][1] : k \in 1..(IF available THEN downs_count ELSE downs_count + 1) }
    \cup { downs[k][2] : k \in 1..downs_count }

C13_BatchPerTimestamp ==
    /\ (pc = "loop" /\ started) => \A e \in filter_map(Events) : e # time
    /\ pc \in { "loop", "done" } =>
          Cardinality(TransitionTimes)
             = 2 * downs_count + (IF available THEN 0 ELSE 1)

\* an iteration that consumed a bad release of each node, expired B's cache
\* timer and recorded nothing new
C13_Witness ==
    /\ pc = "loop" /\ started
    /\ \E k \in 1..3 : a_bad_rel[k] = time /\ a_bad = k + 1
    /\ \E k \in 1..3 : b_bad_rel[k] = time /\ b_bad = k + 1
    /\ \E k \in 1..3 : c_bad_rel[k] = time /\ c_bad = k + 1
    /\ time > 0

\* ------------------------------------------------------------------------
\* C14: an iteration that processes a bad release of a node at time t
\* leaves that node's outage timer at t+9; for A it also leaves B's cache
\* timer at t+30 and C's at t+40, whatever they were; with no bad release of
\* A at t the cache timers change only by expiring at t, and a node without
\* a bad release at t has its outage timer changed only by expiring at t.
C14_Expired(x, t) == IF x = Some(t) THEN None ELSE x

C14_BadReleaseEffects ==
    [][(pc = "loop" /\ pc' \in { "loop", "panic_index" }) =>
         LET t == time'
         IN  /\ IF a_bad' # a_bad
                THEN /\ a_available_in' = Some(t + 9)
                     /\ b_cache_full_in' = Some(t + 30)
                     /\ c_cache_full_in' = Some(t + 40)
                ELSE /\ a_available_in' = C14_Expired(a_available_in, t)
                     /\ b_cache_full_in' = C14_Expired(b_cache_full_in, t)
                     /\ c_cache_full_in' = C14_Expired(c_cache_full_in, t)
             /\ b_available_in' = IF b_bad' # b_bad THEN Some(t + 9)
                                  ELSE C14_Expired(b_available_in, t)
             /\ c_available_in' = IF c_bad' # c_bad THEN Some(t + 9)
                                  ELSE C14_Expired(c_available_in, t)]_vars

\* B's bad release was just processed while the warm-up started by an
\* earlier bad release of A is in progress, and the warm-up is untouched
C14_Witness ==
    /\ pc = "loop" /\ started
    /\ \E k \in 1..3 : b_bad_rel[k] = time /\ b_bad = k + 1
    /\ b_available_in = Some(time + 9)
    /\ \E t \in ProcessedABad :
          t < time /\ b_cache_full_in = Some(t + 30) /\ c_cache_full_in = Some(t + 40)

\* ------------------------------------------------------------------------
\* C15: a node's outage timer is armed exactly from the iteration of a bad
\* release t of the node until the iteration of t+9, with the value t+9;
\* the node's next bad release comes after that.
C15_Exact(bad, cur, timer) ==
    LET active == { bad[k] : k \in { m \in 1..(cur - 1) :
                                       time < bad[m] + UNAVAILABLE_TIME_AFTER_BAD } }
    IN  /\ \/ timer = None /\ active = {}
           \/ \E t \in active : active = { t } /\ timer = Some(t + 9)
        /\ \A k \in 1..(Len(bad) - 1) : bad[k + 1] > bad[k] + 9

C15_OutageNineMinutes ==
    pc = "loop" =>
        /\ C15_Exact(a_bad_rel, a_bad, a_available_in)
        /\ C15_Exact(b_bad_rel, b_bad, b_available_in)
        /\ C15_Exact(c_bad_rel, c_bad, c_available_in)

\* the last minute of an outage of C: the timer is still armed at t+8
C15_Witness ==
    /\ pc = "loop" /\ started
    /\ c_available_in = Some(time + 1)

\* ------------------------------------------------------------------------
\* C16: every trial's loop ends, and when it has ended every cursor is
\* exhausted and every timer is null.
C16_Exhausted ==
    /\ a = RELEASE_COUNT + 1 /\ b = RELEASE_COUNT + 1 /\ c = RELEASE_COUNT + 1
    /\ a_bad = BAD_RELEASE_COUNT + 1
    /\ b_bad = BAD_RELEASE_COUNT + 1
    /\ c_bad = BAD_RELEASE_COUNT + 1
    /\ a_available_in = None /\ b_available_in = None /\ c_available_in = None
    /\ b_cache_full_in = None /\ c_cache_full_in = None

C16_LoopTerminates ==
    /\ <>(pc = "done")
    /\ [](pc \in { "done", "underflow", "panic_assert" } => C16_Exhausted)

C16_Witness == pc = "done" /\ C16_Exhausted /\ time > a_rel[RELEASE_COUNT]

\* ------------------------------------------------------------------------
\* C17: when the loop has exited the system is up, every entry of downs has
\* end >= start, the unused ones are (0, 0), and the sum does not underflow;
\* inside the loop every entry has end >= start whenever the system is up.
C17_NoOpenInterval ==
    /\ pc # "underflow"
    /\ pc \in { "done", "panic_assert" } =>
          /\ available
          /\ is_now_available(a_available_in, b_available_in, c_available_in,
                              b_cache_full_in, c_cache_full_in)
          /\ \A k \in (downs_count + 1)..Len(downs) : downs[k] = << 0, 0 >>
    /\ (pc \in { "loop", "done", "panic_assert" } /\ available) =>
          \A k \in 1..Len(downs) : downs[k][2] >= downs[k][1]

\* a finished trial whose last down period ended after the last release
C17_Witness ==
    /\ pc = "done"
    /\ downs_count > 0
    /\ downs_count < Len(downs)
    /\ downs[downs_count][2] > a_rel[RELEASE_COUNT]

\* ------------------------------------------------------------------------
\* C18: the time of each iteration is greater than the time of the one
\* before; after an iteration every pending cursor head and every armed
\* timer is greater than its time and everything consumed or recorded is
\* not.
C18_TimeIncreases ==
    /\ []((pc = "loop" /\ started) =>
            /\ \A e \in filter_map(Events) : e > time
            /\ \A k \in 1..(a - 1) : a_rel[k] <= time
            /\ \A k \in 1..(b - 1) : b_rel[k] <= time
            /\ \A k \in 1..(c - 1) : c_rel[k] <= time
            /\ \A x \in TransitionTimes : x <= time)
    /\ [][(pc = "loop" /\ started /\ pc' \in { "loop", "panic_index" })
             => time' > time]_vars

\* an iteration for a timer while releases are still pending
C18_Witness ==
    /\ pc = "loop" /\ started
    /\ time > 0
    /\ \A k \in 1..RELEASE_COUNT : a_rel[k] # time /\ b_rel[k] # time /\ c_rel[k] # time
    /\ a <= RELEASE_COUNT

\* ------------------------------------------------------------------------
\* C19: the intervals a trial records and the downtime it returns are
\* determined by the three bad-release subsets alone, so two trials with
\* the same subsets and different plain releases agree; and an iteration in
\* which no bad release is processed and no timer expires changes no timer
\* and records no transition.
C19_BadTimes == { bt[2] : bt \in AllBad }

C19_EndTimes ==
    { t + UNAVAILABLE_TIME_AFTER_BAD : t \in C19_BadTimes }
    \cup { a_bad_rel[k] + TIME_TO_B_CACHE : k \in DOMAIN a_bad_rel }
    \cup { a_bad_rel[k] + TIME_TO_C_CACHE : k \in DOMAIN a_bad_rel }
    \cup { TIME_TO_B_CACHE, TIME_TO_C_CACHE }

C19_DownPeriods ==
    { se \in C19_BadTimes \X C19_EndTimes :
        /\ se[1] < se[2]
        /\ se[2] - se[1] <= Stride
        /\ ~SystemDownAt(se[1] - 1)
        /\ ~SystemDownAt(se[2])
        /\ \A x \in se[1]..(se[2] - 1) : SystemDownAt(x) }

RECURSIVE C19_Total(_)
C19_Total(P) ==
    IF P = {} THEN 0
    ELSE LET q == CHOOSE x \in P : TRUE IN (q[2] - q[1]) + C19_Total(P \ { q })

C19_DependsOnBadOnly ==
    /\ [](pc = "done" =>
            /\ Recorded = C19_DownPeriods
            /\ down_time = C19_Total(C19_DownPeriods))
    /\ [][(/\ pc = "loop" /\ pc' = "loop"
           /\ a_bad' = a_bad /\ b_bad' = b_bad /\ c_bad' = c_bad
           /\ \A k \in 7..11 : Events[k] # Some(time'))
             => UNCHANGED << timerVars, downs, downs_count, available >>]_vars

\* a finished trial whose plain releases are not where its bad-release
\* subsets alone would put them, with a plain release during a down period
C19_Witness ==
    /\ pc = "done"
    /\ c_rel[2] # c_bad_rel[1] + Stride
    /\ \E iv \in Recorded : iv[1] < c_rel[2] /\ c_rel[2] < iv[2]

\* ------------------------------------------------------------------------
\* C20: no integer operation overflows: every armed timer is the exact sum
\* of a bad-release time (or 0 at the start) and its constant and is below
\* 2^31, hence fits in u32; a trial's downtime times EXPERIMENT_COUNT is
\* below 2^31, so the sum of that many results fits in u64; and a trial's
\* downtime is below YEAR_TIME, so the average is and 1 - average/YEAR_TIME
\* is not negative.
C20_Exact(timer, bad, d) ==
    timer # None =>
        /\ timer[1] <= 2147483647
        /\ \E k \in DOMAIN bad : timer[1] = bad[k] + d

C20_NoOverflow ==
    /\ pc = "loop" =>
          /\ C20_Exact(a_available_in, a_bad_rel, 9)
          /\ C20_Exact(b_available_in, b_bad_rel, 9)
          /\ C20_Exact(c_available_in, c_bad_rel, 9)
          /\ b_cache_full_in = Some(30) \/ C20_Exact(b_cache_full_in, a_bad_rel, 30)
          /\ c_cache_full_in = Some(40) \/ C20_Exact(c_cache_full_in, a_bad_rel, 40)
    /\ pc = "done" =>
          /\ down_time < YEAR_TIME
          /\ EXPERIMENT_COUNT * down_time <= 2147483647

\* C's cache timer armed beyond the end of the year
C20_Witness ==
    /\ pc = "loop"
    /\ c_cache_full_in # None
    /\ c_cache_full_in[1] > YEAR_TIME - MIN_TIME_BETWEEN_RELEASES

====
